---- MODULE Spec2Model ----
(***************************************************************************)
(* Qmighty (src/qmighty.py): a sequential runner of LAMMPS jobs.           *)
(*                                                                         *)
(* The model follows the two classes of the source:                        *)
(*   Process  - one job: its path, name, command, the Popen handle, the    *)
(*              stderr drain thread, elapsed_time and remaining_time;      *)
(*   Qmighty  - sim_dir_list, accepted_suffixes, the queue (a dict keyed   *)
(*              by id, in insertion order), num_procs, and the loop of     *)
(*              run_process_loop.                                          *)
(* The operating system (the external process, its stderr pipe) and the    *)
(* lammps_logfile reader are the environment: their outcomes are chosen    *)
(* nondeterministically.                                                   *)
(***************************************************************************)
EXTENDS Integers, Sequences, FiniteSets

VARIABLES
    sim_dir_list,          \* Qmighty.sim_dir_list
    accepted_suffixes,     \* Qmighty.accepted_suffixes
    hasQueue,              \* whether self.queue has been assigned
    queue,                 \* Qmighty.queue, in insertion order
    num_procs,             \* Qmighty.num_procs
    initCalls,             \* number of init_processes calls made
    computerArg,           \* the computer argument of the last init_processes call
    initResult,            \* how the last init_processes call ended
    pc,                    \* position of the main thread in run_process_loop
    cur,                   \* index in queue of the job of the current for-iteration
    id_currently_running,  \* Qmighty.id_currently_running
    now,                   \* time.time()
    t0_proc,               \* local t0_proc of run_process_loop
    osproc,                \* per job: the external process and its stderr pipe
    launched,              \* ids whose Popen succeeded, in order
    nsamples,              \* per job: number of update_timings calls
    nrenders,              \* number of print_progress calls
    printed,               \* what line 129/131 printed
    err,                   \* the exception that left run_process_loop, if any
    inputArg,              \* the input_filename argument of the last init_processes call
    screen,                \* what the last print_progress call put on the terminal
    pipe,                  \* per job: the lines in its stderr pipe, not yet read
    written,               \* per job: number of lines its process wrote to stderr
    errout,                \* per job: number of its lines print_errors printed
    probe                  \* the arguments and result of a direct call of a method

vars == <<sim_dir_list, accepted_suffixes, hasQueue, queue, num_procs, initCalls,
          computerArg, initResult, pc, cur, id_currently_running, now, t0_proc,
          osproc, launched, nsamples, nrenders, printed, err, inputArg, screen,
          pipe, written, errout, probe>>

initVars == <<hasQueue, queue, num_procs, initCalls, computerArg, inputArg, initResult>>
runVars  == <<pc, cur, id_currently_running, now, t0_proc, osproc, launched,
              nsamples, nrenders, printed, err>>
stderrVars == <<pipe, written, errout>>

----------------------------------------------------------------------------
(* Bounds of the model *)

MaxDirs  == 3     \* longest sim_dir_list given to init_processes (SpecBuild)
MaxInits == 2     \* init_processes calls on one Qmighty (SpecBuild)
MaxJobs  == 2     \* longest sim_dir_list of a run (Spec)
MaxTime  == 2     \* the clock is not advanced beyond this
MaxStep  == 1     \* longest time one sleep takes, in units of update_frequency
MaxHalf  == 2     \* largest CPULeft data point, in halves of a second
MaxLog   == 1     \* most CPULeft data points in a log
MaxName  == 2     \* longest filename and suffix given to sanity_check (SpecSanity)
MaxFiles == 2     \* most filenames in a directory (SpecSanity)
MaxAdd   == 2     \* longest list given to one add_suffix call (SpecSuffix)
MaxCalls == 2     \* most add_suffix calls after construction (SpecSuffix)
MaxLines == 1     \* most lines a process writes to stderr (SpecDrain)
MaxSufs  == 1     \* longest list of accepted suffixes (SpecSanity)

----------------------------------------------------------------------------
(* Strings the code searches in are sequences of characters *)

RECURSIVE SeqsUpTo(_, _)
SeqsUpTo(S, n) ==
    IF n = 0 THEN {<<>>}
    ELSE LET shorter == SeqsUpTo(S, n - 1)
         IN  shorter \cup {Append(s, x) : s \in {t \in shorter : Len(t) = n - 1}, x \in S}

\* IsSubstr as a match of the end of the filename only
IsSuffixOnly(sub, s) ==
    /\ Len(sub) <= Len(s)
    /\ \A j \in 1..Len(sub) : s[Len(s) - Len(sub) + j] = sub[j]

\* Python's `suffix in filename` on strings
IsSubstr(sub, s) ==
    \E i \in 0..(Len(s) - Len(sub)) :
        \A j \in 1..Len(sub) : s[i + j] = sub[j]

DefaultSuffixes == << <<".", "l", "m", "p">>, <<".", "i", "n">> >>

\* add_suffix without the test of line 68: every given suffix is appended
RECURSIVE add_suffix_always(_, _)
add_suffix_always(acc, suffixes) ==
    IF suffixes = <<>> THEN acc
    ELSE add_suffix_always(Append(acc, Head(suffixes)), Tail(suffixes))

\* Qmighty.add_suffix, applied to accepted_suffixes `acc`
RECURSIVE add_suffix(_, _)
add_suffix(acc, suffixes) ==
    IF suffixes = <<>> THEN acc
    ELSE LET s == Head(suffixes)
             present == \E i \in 1..Len(acc) : acc[i] = s
         IN  add_suffix(IF present THEN acc ELSE Append(acc, s), Tail(suffixes))

\* The add_suffixes argument of the constructor: None, or a list of suffixes
AddSuffixArgs ==
    { [given |-> FALSE, suffixes |-> <<>>],
      [given |-> TRUE,  suffixes |-> << <<".", "d", "a", "t">>, <<".", "i", "n">> >>] }

\* Qmighty.__init__, lines 53-55
InitialSuffixes(a) ==
    IF a.given THEN add_suffix(DefaultSuffixes, a.suffixes) ELSE DefaultSuffixes

\* The file system under root_dir: directory name -> the filenames in it.
\* A name outside the domain does not exist (os.listdir raises).
FileSystem ==
    [d \in {"sim1", "sim2", "doc", "my sim"} |->
        CASE d \in {"sim1", "my sim"} -> { <<"r", "u", "n", ".", "l", "m", "p">> }
          [] d = "sim2" -> { <<"m", "a", "i", "n", ".", "i", "n", "p", "u", "t">>,
                             <<"l", "o", "g">> }
          [] d = "doc"  -> { <<"r", "e", "a", "d", "m", "e">> }]

DirNames == DOMAIN FileSystem \cup {"ghost"}

\* lines 73-78 on the filenames os.listdir returned
HasAccepted(filenames, sufs) ==
    \E filename \in filenames :
        \E i \in 1..Len(sufs) : IsSubstr(sufs[i], filename)

\* Qmighty.sanity_check on a directory that exists
sanity_check(sim_dir, sufs) == HasAccepted(FileSystem[sim_dir], sufs)

----------------------------------------------------------------------------
(* init_processes *)

BaseID == 100

\* The spelling of a directory name
DirChars(d) ==
    CASE d = "sim1"   -> <<"s", "i", "m", "1">>
      [] d = "sim2"   -> <<"s", "i", "m", "2">>
      [] d = "doc"    -> <<"d", "o", "c">>
      [] d = "my sim" -> <<"m", "y", " ", "s", "i", "m">>
      [] d = "ghost"  -> <<"g", "h", "o", "s", "t">>

\* line 184: the default of --input_format
RunLmp == <<"r", "u", "n", ".", "l", "m", "p">>

\* The input_filename arguments init_processes is called with
InputFilenames == {RunLmp, <<"i", "n", " ", "1">>}

\* str.split() of the characters s from position i on: word is the word
\* being read, words the words read so far
RECURSIVE SplitFrom(_, _, _, _)
SplitFrom(s, i, word, words) ==
    IF i > Len(s) THEN (IF word = <<>> THEN words ELSE Append(words, word))
    ELSE IF s[i] = " "
         THEN SplitFrom(s, i + 1, <<>>, IF word = <<>> THEN words ELSE Append(words, word))
         ELSE SplitFrom(s, i + 1, Append(word, s[i]), words)

Split(s) == SplitFrom(s, 1, <<>>, <<>>)

\* lines 95-98: the f-string, split. The fixed text holds no blank inside a
\* word, so its words are written as they are; sim_path and input_filename
\* are split where they hold blanks
Command(computer, sim_path, input_filename) ==
    IF computer = "CPU"
    THEN <<"mpirun", "-np", "4", "-wdir">> \o Split(sim_path)
         \o <<"lmp", "-in">> \o Split(input_filename)
    ELSE <<"mpirun", "-n", "1", "-wdir">> \o Split(sim_path)
         \o <<"lmp", "-k", "on", "g", "1", "-sf", "kk", "-pk", "kokkos",
              "newton", "on", "neigh", "half", "-in">> \o Split(input_filename)

\* Process.__init__ and set_command, and the dict entry of lines 103-104;
\* path is line 90, root_dir joined with sim_dir
NewJob(procID, sim_dir, command) ==
    [ID |-> procID, name |-> sim_dir, path |-> DirChars(sim_dir), command |-> command,
     elapsed_time |-> 0, remaining_time |-> 0, complete |-> FALSE,
     thread |-> "unset"]

\* LoopBody with `procID += 1` moved above the `continue`: a rejected
\* directory consumes an id
LoopBodyCountsRejected(st, sim_dir, computer, input_filename, sufs) ==
    IF ~sanity_check(sim_dir, sufs) THEN [st EXCEPT !.procID = @ + 1]
    ELSE [queue     |-> Append(st.queue,
                               NewJob(st.procID, sim_dir,
                                      Command(computer, DirChars(sim_dir), input_filename))),
          procID    |-> st.procID + 1,
          num_procs |-> st.num_procs + 1]

\* One iteration of the for loop, lines 90-107, on a directory that exists:
\* st holds self.queue, procID and self.num_procs
LoopBody(st, sim_dir, computer, input_filename, sufs) ==
    IF ~sanity_check(sim_dir, sufs) THEN st
    ELSE [queue     |-> Append(st.queue,
                               NewJob(st.procID, sim_dir,
                                      Command(computer, DirChars(sim_dir), input_filename))),
          procID    |-> st.procID + 1,
          num_procs |-> st.num_procs + 1]

\* The for loop of lines 89-107 from position i on. sanity_check raises on a
\* directory that does not exist (os.listdir), which ends init_processes.
RECURSIVE BuildQueue(_, _, _, _, _, _)
BuildQueue(dirs, i, st, computer, input_filename, sufs) ==
    IF i > Len(dirs) THEN [st |-> st, result |-> "ok"]
    ELSE IF dirs[i] \notin DOMAIN FileSystem THEN [st |-> st, result |-> "OSError"]
    ELSE BuildQueue(dirs, i + 1,
                    LoopBody(st, dirs[i], computer, input_filename, sufs),
                    computer, input_filename, sufs)

\* lines 86-88
EmptyBuild == [queue |-> <<>>, procID |-> BaseID, num_procs |-> 0]

ComputerArgs == {"CPU", "GPU", "x"}

\* ValidComputer with the 'GPU' comparison lost
ValidComputerCPUOnly(computer) == computer = "CPU"

\* lines 83-84
ValidComputer(computer) == computer = "CPU" \/ computer = "GPU"

init_processes(computer, input_filename) ==
    /\ pc = "idle"
    /\ initCalls < MaxInits
    /\ initCalls' = initCalls + 1
    /\ computerArg' = computer
    /\ inputArg' = input_filename
    /\ IF ~ValidComputer(computer)
       THEN /\ initResult' = "ValueError"
            /\ UNCHANGED <<hasQueue, queue, num_procs>>
       ELSE LET b == BuildQueue(sim_dir_list, 1, EmptyBuild, computer,
                                input_filename, accepted_suffixes)
            IN  /\ hasQueue' = TRUE
                /\ queue' = b.st.queue
                /\ num_procs' = b.st.num_procs
                /\ initResult' = b.result
    /\ UNCHANGED <<probe, stderrVars, screen, sim_dir_list, accepted_suffixes>>
    /\ UNCHANGED runVars


----------------------------------------------------------------------------
(* The environment: the external process of job i and its stderr pipe *)

Jobs == 1..Len(queue)

\* The process exits. Its end of the stderr pipe closes with it, unless a
\* descendant that inherited the pipe still holds it open.
ProcExit(i) ==
    /\ osproc[i].state = "running"
    /\ \E s \in {osproc[i].stderr, "closed"} :
          osproc' = [osproc EXCEPT ![i] = [state |-> "zombie", stderr |-> s]]
    /\ UNCHANGED <<probe, stderrVars, screen, sim_dir_list, accepted_suffixes, initVars, queue>>
    /\ UNCHANGED <<pc, cur, id_currently_running, now, t0_proc, launched, nsamples,
                   nrenders, printed, err>>

\* The last holder of the write end closes it: the running process itself
\* (it may close its stderr and keep running), or the last descendant.
StderrClose(i) ==
    /\ osproc[i].state \in {"running", "zombie"}
    /\ osproc[i].stderr = "open"
    /\ osproc' = [osproc EXCEPT ![i].stderr = "closed"]
    /\ UNCHANGED <<probe, stderrVars, screen, sim_dir_list, accepted_suffixes, initVars, queue>>
    /\ UNCHANGED <<pc, cur, id_currently_running, now, t0_proc, launched, nsamples,
                   nrenders, printed, err>>

\* Process.print_errors, lines 28-30: the loop over process.stderr ends at EOF
DrainEOF(i) ==
    /\ queue[i].thread = "alive"
    /\ osproc[i].stderr = "closed"
    /\ pipe[i] = <<>>
    /\ queue' = [queue EXCEPT ![i].thread = "dead"]
    /\ UNCHANGED <<probe, stderrVars, screen, sim_dir_list, accepted_suffixes, hasQueue, num_procs, initCalls,
                   computerArg, inputArg, initResult>>
    /\ UNCHANGED runVars

\* A holder of the write end writes one line to stderr: text that is UTF-8
\* or bytes that are not
LineKinds == {"utf8", "bad"}

StderrWrite(i, kind) ==
    /\ osproc[i].stderr = "open"
    /\ written[i] < MaxLines
    /\ pipe' = [pipe EXCEPT ![i] = Append(@, kind)]
    /\ written' = [written EXCEPT ![i] = @ + 1]
    /\ UNCHANGED <<probe, errout, screen, sim_dir_list, accepted_suffixes, initVars>>
    /\ UNCHANGED runVars

\* Process.print_errors, lines 29-30, for the next line of the pipe: it is
\* decoded and printed after "STDERR: "; decode raises on a line that is not
\* UTF-8, which ends the thread with the line read and not printed
DrainLine(i) ==
    /\ queue[i].thread = "alive"
    /\ pipe[i] # <<>>
    /\ pipe' = [pipe EXCEPT ![i] = Tail(@)]
    /\ IF Head(pipe[i]) = "utf8"
       THEN /\ errout' = [errout EXCEPT ![i] = @ + 1]
            /\ queue' = queue
       ELSE /\ errout' = errout
            /\ queue' = [queue EXCEPT ![i].thread = "dead"]
    /\ UNCHANGED <<probe, written, screen, sim_dir_list, accepted_suffixes, hasQueue,
                   num_procs, initCalls, computerArg, inputArg, initResult>>
    /\ UNCHANGED runVars

\* Process.print_errors, line 30: a line that is not UTF-8 makes decode raise,
\* which ends the thread while the pipe is open
DrainDecodeError(i) ==
    /\ queue[i].thread = "alive"
    /\ osproc[i].stderr = "open"
    /\ queue' = [queue EXCEPT ![i].thread = "dead"]
    /\ UNCHANGED <<probe, stderrVars, screen, sim_dir_list, accepted_suffixes, hasQueue, num_procs, initCalls,
                   computerArg, inputArg, initResult>>
    /\ UNCHANGED runVars

----------------------------------------------------------------------------
(* Process.update_timings *)

\* Python 3 round() of h halves: ties go to the even integer
PyRound(h) ==
    IF h % 2 = 0 THEN h \div 2
    ELSE LET f == (h - 1) \div 2 IN IF f % 2 = 0 THEN f ELSE f + 1

\* Elapsed with the operands exchanged
ElapsedSwapped(t1, t0) == t0 - t1

\* line 34
Elapsed(t1, t0) == t1 - t0

\* What lines 36-40 leave in remaining_time: lammps_logfile.File(...) or
\* log.get(...) raises (caught: None), get returns None, or get returns the
\* array of CPULeft data points, which is empty when no row has been logged
LogOutcomes ==
    {[kind |-> "raise", data |-> <<>>], [kind |-> "None", data |-> <<>>]}
    \cup {[kind |-> "array", data |-> d] : d \in SeqsUpTo(0..MaxHalf, MaxLog)}

LogValue(o) == IF o.kind = "array" THEN o.data ELSE "None"

\* line 44: remaining_time[-1]
LastOf(a) == a[Len(a)]

\* lines 41-44 on the value v of remaining_time; indexing an empty array raises
RemainingOf(v) ==
    IF v = "None" THEN [raised |-> FALSE, value |-> 0]
    ELSE IF Len(v) = 0 THEN [raised |-> TRUE, value |-> 0]
    ELSE [raised |-> FALSE, value |-> PyRound(LastOf(v))]

----------------------------------------------------------------------------
(* The terminal: clear_n_lines and print_progress *)

None == -1

\* What the terminal shows: whether the whole screen was cleared, the number
\* of lines cleared from the top left otherwise, and the lines printed since
NoOutput == [full |-> FALSE, cleared |-> 0, header |-> <<>>, rows |-> <<>>]

\* Qmighty.clear_n_lines, lines 134-143
clear_n_lines(n) ==
    IF n = None
    THEN [full |-> TRUE,  cleared |-> 0, header |-> <<>>, rows |-> <<>>]
    ELSE [full |-> FALSE, cleared |-> n, header |-> <<>>, rows |-> <<>>]

\* str(datetime.timedelta(seconds=sec)) for 0 <= sec below one day: H:MM:SS
Timedelta(sec) == <<sec \div 3600, (sec \div 60) % 60, sec % 60>>

\* line 155
Head4 == <<"Job ID", "Name", "Elapsed Time", "Remaining Time">>

\* lines 159-162 for one item of the dict; the stored times are whole
\* seconds here, 2 * t halves
Row(job) ==
    <<job.ID, job.name, Timedelta(PyRound(2 * job.elapsed_time)),
      Timedelta(PyRound(2 * job.remaining_time))>>

\* PrintRows leaving out the jobs that are complete
RECURSIVE PrintRowsPending(_, _, _)
PrintRowsPending(q, i, rows) ==
    IF i > Len(q) THEN rows
    ELSE PrintRowsPending(q, i + 1,
                          IF q[i].complete THEN rows ELSE Append(rows, Row(q[i])))

\* the for loop of lines 158-162 from item i on, after the rows printed so far
RECURSIVE PrintRows(_, _, _)
PrintRows(q, i, rows) ==
    IF i > Len(q) THEN rows ELSE PrintRows(q, i + 1, Append(rows, Row(q[i])))

\* Qmighty.print_progress, lines 154-162: the terminal after the call
Render(q, n) ==
    [clear_n_lines(n + 5) EXCEPT !.header = Head4, !.rows = PrintRows(q, 1, <<>>)]

----------------------------------------------------------------------------
(* run_process_loop *)

\* lines 111-113; line 114 on a Qmighty that has no queue raises AttributeError
RunStart ==
    /\ pc = "idle"
    /\ id_currently_running' = 0
    /\ IF hasQueue
       THEN /\ pc' = "for"
            /\ err' = err
       ELSE /\ pc' = "aborted"
            /\ err' = "AttributeError"
    /\ cur' = 0
    /\ osproc' = [i \in Jobs |-> [state |-> "none", stderr |-> "none"]]
    /\ nsamples' = [i \in Jobs |-> 0]
    /\ pipe' = [i \in Jobs |-> <<>>]
    /\ written' = [i \in Jobs |-> 0]
    /\ errout' = [i \in Jobs |-> 0]
    /\ screen' = clear_n_lines(None)
    /\ UNCHANGED <<probe, sim_dir_list, accepted_suffixes, initVars>>
    /\ UNCHANGED <<now, t0_proc, launched, nrenders, printed>>

\* ForNext leaving the loop after the first item
ForNextFirstOnly ==
    /\ pc = "for"
    /\ IF cur < Len(queue) /\ cur < 1
       THEN /\ cur' = cur + 1
            /\ id_currently_running' = queue[cur + 1].ID
            /\ pc' = "spawn"
       ELSE /\ pc' = "report"
            /\ UNCHANGED <<cur, id_currently_running>>
    /\ UNCHANGED <<probe, stderrVars, screen, sim_dir_list, accepted_suffixes, initVars>>
    /\ UNCHANGED <<now, t0_proc, osproc, launched, nsamples, nrenders, printed, err>>

\* lines 114-116: the next item of the dict, or the end of the loop
ForNext ==
    /\ pc = "for"
    /\ IF cur < Len(queue)
       THEN /\ cur' = cur + 1
            /\ id_currently_running' = queue[cur + 1].ID
            /\ pc' = "spawn"
       ELSE /\ pc' = "report"
            /\ UNCHANGED <<cur, id_currently_running>>
    /\ UNCHANGED <<probe, stderrVars, screen, sim_dir_list, accepted_suffixes, initVars>>
    /\ UNCHANGED <<now, t0_proc, osproc, launched, nsamples, nrenders, printed, err>>

\* Process.spawn_thread, lines 17-26, and line 118
SpawnOk ==
    /\ pc = "spawn"
    /\ osproc' = [osproc EXCEPT ![cur] = [state |-> "running", stderr |-> "open"]]
    /\ queue' = [queue EXCEPT ![cur].thread = "alive"]
    /\ launched' = Append(launched, queue[cur].ID)
    /\ t0_proc' = now
    /\ pc' = "while"
    /\ UNCHANGED <<probe, stderrVars, screen, sim_dir_list, accepted_suffixes, hasQueue, num_procs, initCalls,
                   computerArg, inputArg, initResult>>
    /\ UNCHANGED <<cur, id_currently_running, now, nsamples, nrenders, printed, err>>

\* Process.spawn_thread, lines 18-19: open() or Popen raises (the directory
\* is not writable, mpirun is not on the PATH); nothing catches it
SpawnRaises ==
    /\ pc = "spawn"
    /\ pc' = "aborted"
    /\ err' = "OSError"
    /\ UNCHANGED <<probe, stderrVars, screen, sim_dir_list, accepted_suffixes, initVars>>
    /\ UNCHANGED <<cur, id_currently_running, now, t0_proc, osproc, launched,
                   nsamples, nrenders, printed>>

\* line 119
WhileTest ==
    /\ pc = "while"
    /\ pc' = IF queue[cur].thread = "alive" THEN "sample" ELSE "after"
    /\ UNCHANGED <<probe, stderrVars, screen, sim_dir_list, accepted_suffixes, initVars>>
    /\ UNCHANGED <<cur, id_currently_running, now, t0_proc, osproc, launched,
                   nsamples, nrenders, printed, err>>

\* update_timings with elapsed_time an attribute of the class, shared by
\* every job
update_timings_shared(o) ==
    /\ pc = "sample"
    /\ LET r == RemainingOf(LogValue(o))
       IN  /\ queue' = [j \in 1..Len(queue) |->
                          IF j = cur
                          THEN [queue[j] EXCEPT
                                  !.elapsed_time = Elapsed(now, t0_proc),
                                  !.remaining_time = IF r.raised THEN @ ELSE r.value]
                          ELSE [queue[j] EXCEPT
                                  !.elapsed_time = Elapsed(now, t0_proc)]]
           /\ pc' = IF r.raised THEN "aborted" ELSE "print"
           /\ err' = IF r.raised THEN "IndexError" ELSE err
    /\ nsamples' = [nsamples EXCEPT ![cur] = @ + 1]
    /\ UNCHANGED <<probe, stderrVars, screen, sim_dir_list, accepted_suffixes, hasQueue, num_procs, initCalls,
                   computerArg, inputArg, initResult>>
    /\ UNCHANGED <<cur, id_currently_running, now, t0_proc, osproc, launched,
                   nrenders, printed>>

\* line 120: process.update_timings(t0_proc), lines 32-44
update_timings(o) ==
    /\ pc = "sample"
    /\ LET r == RemainingOf(LogValue(o))
       IN  /\ queue' = [queue EXCEPT
                          ![cur].elapsed_time = Elapsed(now, t0_proc),
                          ![cur].remaining_time =
                              IF r.raised THEN @ ELSE r.value]
           /\ pc' = IF r.raised THEN "aborted" ELSE "print"
           /\ err' = IF r.raised THEN "IndexError" ELSE err
    /\ nsamples' = [nsamples EXCEPT ![cur] = @ + 1]
    /\ UNCHANGED <<probe, stderrVars, screen, sim_dir_list, accepted_suffixes, hasQueue, num_procs, initCalls,
                   computerArg, inputArg, initResult>>
    /\ UNCHANGED <<cur, id_currently_running, now, t0_proc, osproc, launched,
                   nrenders, printed>>

\* print_progress that zeroes the remaining time of the current job once it
\* has shown it
print_progress_consuming ==
    /\ pc = "print"
    /\ screen' = Render(queue, num_procs)
    /\ queue' = [queue EXCEPT ![cur].remaining_time = 0]
    /\ nrenders' = nrenders + 1
    /\ pc' = "sleep"
    /\ UNCHANGED <<probe, stderrVars, sim_dir_list, accepted_suffixes, hasQueue,
                   num_procs, initCalls, computerArg, inputArg, initResult>>
    /\ UNCHANGED <<cur, id_currently_running, now, t0_proc, osproc, launched,
                   nsamples, printed, err>>

\* line 121: self.print_progress(), lines 154-162
print_progress ==
    /\ pc = "print"
    /\ screen' = Render(queue, num_procs)
    /\ nrenders' = nrenders + 1
    /\ pc' = "sleep"
    /\ UNCHANGED <<probe, stderrVars, sim_dir_list, accepted_suffixes, initVars>>
    /\ UNCHANGED <<cur, id_currently_running, now, t0_proc, osproc, launched,
                   nsamples, printed, err>>

\* line 122: time.sleep(self.update_frequency) takes d >= 1 units
Sleep(d) ==
    /\ pc = "sleep"
    /\ now + d <= MaxTime
    /\ now' = now + d
    /\ pc' = "while"
    /\ UNCHANGED <<probe, stderrVars, screen, sim_dir_list, accepted_suffixes, initVars>>
    /\ UNCHANGED <<cur, id_currently_running, t0_proc, osproc, launched,
                   nsamples, nrenders, printed, err>>

\* lines 124-126; join() returns once the thread is dead
AfterLoop ==
    /\ pc = "after"
    /\ queue[cur].thread = "dead"
    /\ queue' = [queue EXCEPT ![cur].complete = TRUE]
    /\ pc' = "for"
    /\ UNCHANGED <<probe, stderrVars, screen, sim_dir_list, accepted_suffixes, hasQueue, num_procs, initCalls,
                   computerArg, inputArg, initResult>>
    /\ UNCHANGED <<cur, id_currently_running, now, t0_proc, osproc, launched,
                   nsamples, nrenders, printed, err>>

\* Report with the branches of line 128 exchanged
ReportInverted ==
    /\ pc = "report"
    /\ printed' = IF num_procs = 0 THEN "summary" ELSE "no jobs found"
    /\ pc' = "done"
    /\ UNCHANGED <<probe, stderrVars, screen, sim_dir_list, accepted_suffixes, initVars>>
    /\ UNCHANGED <<cur, id_currently_running, now, t0_proc, osproc, launched,
                   nsamples, nrenders, err>>

\* lines 127-131
Report ==
    /\ pc = "report"
    /\ printed' = IF num_procs = 0 THEN "no jobs found" ELSE "summary"
    /\ pc' = "done"
    /\ UNCHANGED <<probe, stderrVars, screen, sim_dir_list, accepted_suffixes, initVars>>
    /\ UNCHANGED <<cur, id_currently_running, now, t0_proc, osproc, launched,
                   nsamples, nrenders, err>>

----------------------------------------------------------------------------

\* No method has been called directly
NoCall == [op |-> "none"]

\* The state after Qmighty.__init__, lines 50-64
Constructed(dirs, a) ==
    /\ sim_dir_list = dirs
    /\ accepted_suffixes = InitialSuffixes(a)
    /\ hasQueue = FALSE
    /\ queue = <<>>
    /\ num_procs = 0
    /\ initCalls = 0
    /\ computerArg = "unset"
    /\ initResult = "none"
    /\ pc = "idle"
    /\ cur = 0
    /\ id_currently_running = 0
    /\ now = 0
    /\ t0_proc = 0
    /\ osproc = <<>>
    /\ launched = <<>>
    /\ nsamples = <<>>
    /\ nrenders = 0
    /\ printed = "none"
    /\ err = "none"
    /\ inputArg = "unset"
    /\ screen = NoOutput
    /\ pipe = <<>>
    /\ written = <<>>
    /\ errout = <<>>

\* One use of the class in the order of lines 200-202: construct (here
\* without add_suffixes), init_processes once, run_process_loop once
Init ==
    /\ \E dirs \in SeqsUpTo({"sim1", "doc"}, MaxJobs) :
          Constructed(dirs, [given |-> FALSE, suffixes |-> <<>>])
    /\ probe = NoCall

Next ==
    \/ \E c \in ComputerArgs : initCalls = 0 /\ init_processes(c, RunLmp)
    \/ RunStart
    \/ ForNext
    \/ SpawnOk
    \/ SpawnRaises
    \/ WhileTest
    \/ \E o \in LogOutcomes : update_timings(o)
    \/ print_progress
    \/ \E d \in 1..MaxStep : Sleep(d)
    \/ AfterLoop
    \/ Report
    \/ \E i \in DOMAIN osproc : ProcExit(i)
    \/ \E i \in DOMAIN osproc : StderrClose(i)
    \/ \E i \in DOMAIN osproc : DrainEOF(i)
    \/ \E i \in DOMAIN osproc : DrainDecodeError(i)

Spec == Init /\ [][Next]_vars

\* The run with the lines of stderr written and read one by one, in a clock
\* that ticks once per sleep and with a log that has no CPULeft column
InitDrain ==
    /\ \E dirs \in SeqsUpTo({"sim1"}, MaxJobs) :
          Constructed(dirs, [given |-> FALSE, suffixes |-> <<>>])
    /\ probe = NoCall

NextDrain ==
    \/ initCalls = 0 /\ init_processes("CPU", RunLmp)
    \/ RunStart
    \/ ForNext
    \/ SpawnOk
    \/ WhileTest
    \/ update_timings([kind |-> "None", data |-> <<>>])
    \/ print_progress
    \/ Sleep(1)
    \/ AfterLoop
    \/ Report
    \/ \E i \in DOMAIN osproc : ProcExit(i)
    \/ \E i \in DOMAIN osproc : StderrClose(i)
    \/ \E i \in DOMAIN osproc : DrainEOF(i)
    \/ \E i \in DOMAIN osproc, kind \in LineKinds : StderrWrite(i, kind)
    \/ \E i \in DOMAIN osproc : DrainLine(i)

SpecDrain == InitDrain /\ [][NextDrain]_vars

\* Iterating a str where a list of suffixes is expected yields its characters,
\* each a str of length one
CharsOf(str) == [i \in 1..Len(str) |-> <<str[i]>>]

\* The command line, lines 200-201: args.input_format is the fourth positional
\* argument of Qmighty, which is add_suffixes, and the input_filename of
\* init_processes; --computer is one of its two choices
MainArgs ==
    [input_format : InputFilenames, computer : {"CPU", "GPU"}]

InitMain ==
    \E dirs \in SeqsUpTo(DirNames, MaxDirs), args \in MainArgs :
        /\ Constructed(dirs, [given |-> TRUE, suffixes |-> CharsOf(args.input_format)])
        /\ probe = [op |-> "main", input_format |-> args.input_format,
                    computer |-> args.computer]

NextMain ==
    /\ probe.op = "main"
    /\ initCalls = 0
    /\ init_processes(probe.computer, probe.input_format)

SpecMain == InitMain /\ [][NextMain]_vars

\* Qmighty as a class: any candidate list, any add_suffixes, and
\* init_processes called again and again
InitBuild ==
    /\ \E dirs \in SeqsUpTo(DirNames, MaxDirs), a \in AddSuffixArgs :
          Constructed(dirs, a)
    /\ probe = NoCall

NextBuild == \E c \in ComputerArgs, f \in InputFilenames : init_processes(c, f)

SpecBuild == InitBuild /\ [][NextBuild]_vars

\* sanity_check called on a directory of any filenames with any list of
\* accepted suffixes: names and suffixes over two characters
NameChars == {".", "n"}

SubsetsUpTo(S, n) == {T \in SUBSET S : Cardinality(T) <= n}

InitSanity ==
    /\ Constructed(<<>>, [given |-> FALSE, suffixes |-> <<>>])
    /\ \E files \in SubsetsUpTo(SeqsUpTo(NameChars, MaxName), MaxFiles),
          sufs \in SeqsUpTo(SeqsUpTo(NameChars, MaxName), MaxSufs) :
          probe = [op |-> "sanity_check", filenames |-> files, suffixes |-> sufs,
                   returned |-> "pending"]

SanityCheckCall ==
    /\ probe.op = "sanity_check"
    /\ probe.returned = "pending"
    /\ probe' = [probe EXCEPT
                   !.returned = IF HasAccepted(probe.filenames, probe.suffixes)
                                THEN "True" ELSE "False"]
    /\ UNCHANGED <<stderrVars, screen, sim_dir_list, accepted_suffixes, initVars>>
    /\ UNCHANGED runVars

NextSanity == SanityCheckCall

SpecSanity == InitSanity /\ [][NextSanity]_vars

\* The object after construction with any add_suffixes argument, then calls of
\* add_suffix with any lists of suffixes
SuffixPool ==
    { <<".", "l", "m", "p">>, <<".", "i", "n">>, <<".", "t", "x", "t">>,
      <<".", "d", "a", "t">>, <<"i", "n">> }

InitSuffix ==
    /\ \E a \in AddSuffixArgs : Constructed(<<>>, a)
    /\ probe = [op |-> "add_suffix", calls |-> 0, suffixes |-> <<>>]

AddSuffixCall(suffixes) ==
    /\ probe.op = "add_suffix"
    /\ probe.calls < MaxCalls
    /\ accepted_suffixes' = add_suffix(accepted_suffixes, suffixes)
    /\ probe' = [probe EXCEPT !.calls = @ + 1, !.suffixes = suffixes]
    /\ UNCHANGED <<stderrVars, screen, sim_dir_list, initVars>>
    /\ UNCHANGED runVars

NextSuffix == \E suffixes \in SeqsUpTo(SuffixPool, MaxAdd) : AddSuffixCall(suffixes)

SpecSuffix == InitSuffix /\ [][NextSuffix]_vars

----------------------------------------------------------------------------
(* Properties *)

\* C1: during run_process_loop at most one job's external process is
\* running at any time.
C1_AtMostOneRunning ==
    Cardinality({i \in DOMAIN osproc : osproc[i].state = "running"}) <= 1

\* C2: the jobs are launched in ascending id order, in the order of the
\* queue, none skipped over and none launched twice: the launches made so
\* far are always the first ids of the queue, and when the loop has ended
\* every job of the queue has been launched.
C2_LaunchOrder ==
    /\ Len(launched) <= Len(queue)
    /\ \A j \in 1..Len(launched) : launched[j] = queue[j].ID
    /\ \A j \in 1..(Len(launched) - 1) : launched[j] < launched[j + 1]
    /\ pc \in {"report", "done"} => Len(launched) = Len(queue)

C2_Witness ==
    /\ pc = "done"
    /\ Len(launched) = 2
    /\ launched[2] = 101

\* C3: a launch that raises does not abort the run: run_process_loop goes on
\* to the next job.
C3_LaunchFailureContinues == ~(pc = "aborted" /\ err = "OSError")

\* C4: when supervision of a job has ended (line 124 has marked it
\* complete), its external process has been reaped. Stated for the jobs
\* whose process has exited by then: no exited process is left unreaped.
C4_ReapedWhenComplete ==
    \A i \in DOMAIN osproc :
        (queue[i].complete /\ osproc[i].state # "running")
        => osproc[i].state = "reaped"

\* C5: once a job's external process has exited, update_timings is not
\* called for that job again and the test of line 119 is false.
C5_NoSampleAfterExit ==
    [][\A i \in DOMAIN osproc :
          osproc[i].state = "zombie" =>
             /\ nsamples'[i] = nsamples[i]
             /\ ~(pc = "while" /\ cur = i /\ pc' = "sample")]_vars

\* C6: while a job's external process is alive, every update_timings call
\* after the job's first records an elapsed_time larger than the one before.
C6_ElapsedIncreases ==
    [][\A i \in DOMAIN nsamples :
          (/\ i \in DOMAIN nsamples'
           /\ nsamples'[i] = nsamples[i] + 1
           /\ nsamples[i] >= 1
           /\ osproc[i].state = "running")
          => queue'[i].elapsed_time > queue[i].elapsed_time]_vars

C6_Witness ==
    /\ pc = "print"
    /\ nsamples[cur] >= 2
    /\ osproc[cur].state = "running"
    /\ queue[cur].elapsed_time > 0

\* C7: update_timings never raises, whatever the log reader returns.
C7_UpdateTimingsNeverRaises == [][pc = "sample" => pc' # "aborted"]_vars

\* The candidates of sim_dir_list that pass sanity_check, in order
Accepted ==
    SelectSeq(sim_dir_list,
              LAMBDA d : d \in DOMAIN FileSystem /\ sanity_check(d, accepted_suffixes))

\* C8: after init_processes the ids of the queue are 100, 101, ... without a
\* gap, one for each candidate that passes sanity_check, in discovery order.
C8_IdsFromBase ==
    /\ \A j \in 1..Len(queue) : queue[j].ID = BaseID + j - 1
    /\ initResult = "ok" =>
          /\ Len(queue) = Len(Accepted)
          /\ num_procs = Len(Accepted)
          /\ \A j \in 1..Len(queue) : queue[j].name = Accepted[j]

C8_Witness ==
    /\ initResult = "ok"
    /\ Len(sim_dir_list) = 3
    /\ sim_dir_list[2] = "doc"
    /\ Len(queue) = 2
    /\ queue[2].ID = 101

\* C9: a run of an empty queue launches nothing, samples and renders
\* nothing and reports "no jobs found"; a run of a queue with jobs that
\* reaches its report prints the timing summary.
C9_ReportMatchesJobCount ==
    /\ (hasQueue /\ Len(queue) = 0) =>
          /\ launched = <<>>
          /\ nrenders = 0
          /\ pc \notin {"spawn", "while", "sample", "print", "sleep", "after", "aborted"}
    /\ pc = "done" =>
          printed = IF Len(queue) = 0 THEN "no jobs found" ELSE "summary"
    /\ pc # "done" => printed = "none"

C9_Witness ==
    /\ pc = "done"
    /\ printed = "no jobs found"
    /\ sim_dir_list # <<>>

\* C10: init_processes with a computer other than 'CPU' and 'GPU' raises
\* ValueError and leaves queue and num_procs as they were; with 'CPU' or
\* 'GPU' it does not raise ValueError.
C10_InvalidComputer ==
    [][initCalls' = initCalls + 1 =>
          IF computerArg' \notin {"CPU", "GPU"}
          THEN /\ initResult' = "ValueError"
               /\ hasQueue' = hasQueue
               /\ queue' = queue
               /\ num_procs' = num_procs
          ELSE initResult' # "ValueError"]_vars

C10_Witness ==
    /\ initResult = "ValueError"
    /\ hasQueue
    /\ Len(queue) >= 1

\* t holds sub as a run of consecutive characters
Occurs(sub, t) ==
    \E a \in 1..(Len(t) - Len(sub) + 1) : SubSeq(t, a, a + Len(sub) - 1) = sub

C12_PathAndInputSingleTokens ==
    hasQueue =>
        \A j \in 1..Len(queue) :
            /\ Len(queue[j].command) \in {8, 20}
            /\ queue[j].command[5] = queue[j].path
            /\ queue[j].command[Len(queue[j].command)] \in InputFilenames

Range(f) == {f[i] : i \in DOMAIN f}

NoDuplicates(f) == \A i, j \in DOMAIN f : f[i] = f[j] => i = j

\* C13: accepted_suffixes always holds '.lmp' and '.in' and no suffix twice;
\* a call of add_suffix keeps the list it found as the start of the new list
\* and adds exactly the given suffixes that were not in it.
DefaultsKept ==
    /\ {DefaultSuffixes[1], DefaultSuffixes[2]} \subseteq Range(accepted_suffixes)
    /\ NoDuplicates(accepted_suffixes)

C13_SuffixesOnlyGrow ==
    /\ []DefaultsKept
    /\ [][ probe'.op = "add_suffix" =>
            /\ Len(accepted_suffixes') >= Len(accepted_suffixes)
            /\ SubSeq(accepted_suffixes', 1, Len(accepted_suffixes)) = accepted_suffixes
            /\ Range(accepted_suffixes') =
                   Range(accepted_suffixes) \cup Range(probe'.suffixes) ]_vars

\* a call was given a suffix already present next to a new one
C13_Witness ==
    /\ probe.op = "add_suffix"
    /\ probe.calls = 1
    /\ probe.suffixes = << <<".", "i", "n">>, <<".", "t", "x", "t">> >>
    /\ accepted_suffixes = Append(DefaultSuffixes, <<".", "t", "x", "t">>)

\* t is the H:MM:SS reading of sec seconds
IsHMS(t, sec) ==
    /\ Len(t) = 3
    /\ t[2] \in 0..59
    /\ t[3] \in 0..59
    /\ t[1] * 3600 + t[2] * 60 + t[3] = sec

\* C14: every print_progress call clears num_procs + 5 lines from the top
\* left, prints the header Job ID, Name, Elapsed Time, Remaining Time and
\* then one row for every job of the queue in ascending id order, the row
\* holding the job's id, its name and its stored elapsed and remaining times.
C14_ProgressTable ==
    [][ nrenders' = nrenders + 1 =>
          /\ ~screen'.full
          /\ screen'.cleared = num_procs + 5
          /\ screen'.header = <<"Job ID", "Name", "Elapsed Time", "Remaining Time">>
          /\ Len(screen'.rows) = Len(queue)
          /\ \A j \in 1..Len(queue) :
                /\ screen'.rows[j][1] = queue[j].ID
                /\ screen'.rows[j][2] = queue[j].name
                /\ IsHMS(screen'.rows[j][3], queue[j].elapsed_time)
                /\ IsHMS(screen'.rows[j][4], queue[j].remaining_time)
          /\ \A j \in 1..(Len(queue) - 1) :
                screen'.rows[j][1] < screen'.rows[j + 1][1] ]_vars

\* the table drawn while the second job runs still holds the finished first
\* job with the times it ended with
C14_Witness ==
    /\ cur = 2
    /\ nsamples[2] >= 1
    /\ Len(screen.rows) = 2
    /\ screen.rows[1] = <<100, "sim1", <<0, 0, 1>>, <<0, 0, 1>>>>
    /\ screen.rows[2][1] = 101

\* C15: print_progress changes nothing of the queue and the jobs, so that a
\* second call made right after it draws the same table.
C15_PrintIdempotent ==
    [][ nrenders' = nrenders + 1 =>
          /\ queue' = queue
          /\ num_procs' = num_procs
          /\ <<hasQueue', cur', id_currently_running', t0_proc', now'>>
                = <<hasQueue, cur, id_currently_running, t0_proc, now>>
          /\ Render(queue', num_procs') = screen' ]_vars

\* the table has been drawn twice and shows a remaining time
C15_Witness ==
    /\ pc = "sleep"
    /\ nrenders >= 2
    /\ queue[cur].remaining_time = 1
    /\ screen = Render(queue, num_procs)

\* C16: the run does not end by an exception, and while a launched process
\* goes on running no later job is launched and no summary is printed.
C16_ExitsDriveTheRun ==
    /\ [](pc = "aborted" => ~hasQueue)
    /\ [][ (\E i \in DOMAIN osproc :
               osproc[i].state = "running" /\ osproc'[i].state = "running")
           => (launched' = launched /\ printed' = printed) ]_vars

\* C17: a sample changes the elapsed and remaining time of the supervised job
\* only; jobs not yet started hold 0 for both; no step of run_process_loop
\* changes the id, path, name or command of a job.
C17_SampleFrame ==
    [][ (hasQueue /\ initCalls' = initCalls) =>
          /\ Len(queue') = Len(queue)
          /\ \A j \in 1..Len(queue) :
                /\ queue'[j].ID = queue[j].ID
                /\ queue'[j].path = queue[j].path
                /\ queue'[j].name = queue[j].name
                /\ queue'[j].command = queue[j].command
                /\ (\/ queue'[j].elapsed_time # queue[j].elapsed_time
                    \/ queue'[j].remaining_time # queue[j].remaining_time)
                   => (pc = "sample" /\ j = cur)
                /\ j > cur' =>
                      (queue'[j].elapsed_time = 0 /\ queue'[j].remaining_time = 0) ]_vars

\* the second job has been sampled; the first keeps what its last sample
\* left and the second holds its own
C17_Witness ==
    /\ cur = 2
    /\ pc = "print"
    /\ queue[1].complete
    /\ queue[1].elapsed_time = 1
    /\ queue[1].remaining_time = 1
    /\ queue[2].elapsed_time = 0
    /\ queue[2].remaining_time = 0

\* C18: init_processes raises nothing but the ValueError of an invalid
\* computer: a candidate that is no valid job is skipped, a name that does
\* not exist under root_dir included.
C18_SkipsSilently == initResult \in {"none", "ok", "ValueError"}

\* C19: when the supervision of a job has ended, which is before the next job
\* is launched and before the summary is printed, every line its process
\* wrote to stderr has been printed.
C19_AllStderrPrinted ==
    \A i \in DOMAIN errout : queue[i].complete => errout[i] = written[i]

\* C20: started from the command line, sanity_check accepts by the two
\* default suffixes only, whatever --input_format is: every directory that
\* init_processes has put into the queue has a filename holding '.lmp' or
\* '.in'.
C20_CommandLineSuffixes ==
    (probe.op = "main" /\ initResult = "ok") =>
        \A j \in 1..Len(queue) :
            HasAccepted(FileSystem[queue[j].name], DefaultSuffixes)

====
